---- MODULE Spec2Model ----
(***************************************************************************)
(* Model of the SwiftShip transformation pipeline                           *)
(* (swiftship_etl_pipeline(day 14)/transform.py) and of the extraction that *)
(* writes its raw files (swiftship_etl_pipeline(day 14)/extract.py).        *)
(*                                                                          *)
(* A DataFrame is a record [columns, rows]: the set of column names and the *)
(* sequence of rows, each row a function from the column names to values.   *)
(* Floating-point numbers are exact rationals plus the three IEEE specials  *)
(* (NaN, +inf, -inf): [k, n, d] with k in {"fin","nan","pinf","ninf"}.      *)
(* Rounding of binary floating point is not modelled.                       *)
(* A raw timestamp is the JSON value of the field: null, or a string        *)
(* "2025-01-DD HH:MM:SS" kept as its four numeric fields; to_datetime       *)
(* validates the fields and converts them to seconds since 2025-01-01.      *)
(***************************************************************************)
EXTENDS Integers, Sequences, FiniteSets, TLC

VARIABLES RAW_DIR, STAGED_DIR, delivery_df, traffic_df, merged_df, pc, error

\* the extraction (extract.py): the position in extract_all, the arguments and
\* the loop counter of the running make_request, the value it returned, and
\* the lines of extract.log
VARIABLES xpc, url, retries, attempt, data, log

\* the variables of the extraction, other than the raw directory it writes
xvars == <<xpc, url, retries, attempt, data, log>>

\* the variables of the transformation, other than the raw directory it reads
tvars == <<STAGED_DIR, delivery_df, traffic_df, merged_df, pc, error>>

vars == <<RAW_DIR, STAGED_DIR, delivery_df, traffic_df, merged_df, pc, error,
          xpc, url, retries, attempt, data, log>>

(***************************************************************************)
(* Bounds of the model.                                                     *)
(***************************************************************************)
\* most delivery objects in one raw delivery file
MaxRows == 2

\* most route objects in one raw traffic file
MaxTraffic == 2

(***************************************************************************)
(* Floating-point values.                                                   *)
(***************************************************************************)
Abs(i) == IF i < 0 THEN -i ELSE i

RECURSIVE GCD(_, _)
GCD(a, b) == IF b = 0 THEN a ELSE GCD(b, a % b)

\* the rational n/d (d # 0) in lowest terms with a positive denominator
Fin(n, d) ==
    LET g == GCD(Abs(n), Abs(d))
        s == IF d < 0 THEN -1 ELSE 1
    IN [k |-> "fin", n |-> (s * n) \div g, d |-> Abs(d) \div g]

NaN == [k |-> "nan", n |-> 0, d |-> 1]

PInf == [k |-> "pinf", n |-> 1, d |-> 1]

NInf == [k |-> "ninf", n |-> -1, d |-> 1]

IsFin(x) == x.k = "fin"

IsNaN(x) == x.k = "nan"

\* the sign of a non-NaN value: -1, 0 or 1
Sgn(x) == IF x.n < 0 THEN -1 ELSE IF x.n > 0 THEN 1 ELSE 0

InfOfSign(s) == IF s > 0 THEN PInf ELSE NInf

\* x < y as IEEE compares: false whenever either side is NaN
FLt(x, y) ==
    IF IsNaN(x) \/ IsNaN(y) THEN FALSE
    ELSE IF x.k = "ninf" THEN y.k # "ninf"
    ELSE IF x.k = "pinf" THEN FALSE
    ELSE IF y.k = "ninf" THEN FALSE
    ELSE IF y.k = "pinf" THEN TRUE
    ELSE x.n * y.d < y.n * x.d

\* x <= y as IEEE compares: false whenever either side is NaN
FLe(x, y) == ~IsNaN(x) /\ ~IsNaN(y) /\ ~FLt(y, x)

FAdd(x, y) ==
    IF IsNaN(x) \/ IsNaN(y) THEN NaN
    ELSE IF IsFin(x) /\ IsFin(y) THEN Fin(x.n * y.d + y.n * x.d, x.d * y.d)
    ELSE IF IsFin(x) THEN y
    ELSE IF IsFin(y) THEN x
    ELSE IF x.k = y.k THEN x ELSE NaN

FMul(x, y) ==
    IF IsNaN(x) \/ IsNaN(y) THEN NaN
    ELSE IF IsFin(x) /\ IsFin(y) THEN Fin(x.n * y.n, x.d * y.d)
    ELSE IF Sgn(x) * Sgn(y) = 0 THEN NaN
    ELSE InfOfSign(Sgn(x) * Sgn(y))

\* x / y as numpy divides float arrays: no exception, x/0 is +-inf, 0/0 is NaN
\* (every zero divisor of this program is +0.0)
FDiv(x, y) ==
    IF IsNaN(x) \/ IsNaN(y) THEN NaN
    ELSE IF IsFin(x) /\ IsFin(y) THEN
        IF y.n = 0 THEN (IF x.n = 0 THEN NaN ELSE InfOfSign(Sgn(x)))
        ELSE Fin(x.n * y.d, x.d * y.n)
    ELSE IF IsFin(x) THEN Fin(0, 1)
    ELSE IF IsFin(y) THEN InfOfSign(Sgn(x) * (IF y.n < 0 THEN -1 ELSE 1))
    ELSE NaN

(***************************************************************************)
(* Timestamps.                                                              *)
(***************************************************************************)
\* the JSON string "2025-01-<day> <hh>:<mm>:<ss>"
TS(day, hh, mm, ss) == [kind |-> "str", day |-> day, hh |-> hh, mm |-> mm, ss |-> ss]

\* the JSON value null
NullTS == [kind |-> "null", day |-> 0, hh |-> 0, mm |-> 0, ss |-> 0]

NaT == [nat |-> TRUE, sec |-> 0]

\* pd.to_datetime(value, errors="coerce"): a timestamp (seconds since
\* 2025-01-01 00:00:00), or NaT for null and for a string that is no date
to_datetime(v) ==
    IF /\ v.kind = "str"
       /\ v.day \in 1..31
       /\ v.hh \in 0..23
       /\ v.mm \in 0..59
       /\ v.ss \in 0..59
    THEN [nat |-> FALSE, sec |-> (((v.day - 1) * 24 + v.hh) * 60 + v.mm) * 60 + v.ss]
    ELSE NaT

\* (a - b).total_seconds() / 60, NaN when either timestamp is NaT
minutes_between(a, b) == IF a.nat \/ b.nat THEN NaN ELSE Fin(a.sec - b.sec, 60)

(***************************************************************************)
(* DataFrames.                                                              *)
(***************************************************************************)
\* the null of an object (string) column
NoneStr == "<NA>"

TimeCols == {"dispatch_time", "expected_delivery_time", "actual_delivery_time"}

StrCols == {"shipment_id", "source_city", "destination_city", "city", "weather_warning"}

\* what a frame holds where a JSON object has no such key (or holds null)
NullOf(col) ==
    IF col \in TimeCols THEN NullTS
    ELSE IF col \in StrCols THEN NoneStr
    ELSE NaN

DataFrame(columns, rows) == [columns |-> columns, rows |-> rows]

\* the frame of a variable that is not assigned yet
NoFrame == DataFrame({}, <<>>)

\* pd.json_normalize of a list of flat JSON objects: one row per object, the
\* columns are the union of the keys, a missing key is null in that row
json_normalize(objs) ==
    LET columns == UNION {DOMAIN objs[i] : i \in 1..Len(objs)}
    IN DataFrame(columns,
                 [i \in 1..Len(objs) |->
                    [c \in columns |->
                        IF c \in DOMAIN objs[i] THEN objs[i][c] ELSE NullOf(c)]])

(***************************************************************************)
(* load_latest_file                                                         *)
(***************************************************************************)
File(name, content) == [name |-> name, data |-> content]

\* sorted(folder.glob(...), reverse=True)[0]: the file with the greatest name
\* (the name embeds the extraction timestamp, so the greatest is the latest)
LatestFile(files) == CHOOSE f \in files : \A g \in files : g.name <= f.name

\* the frame load_latest_file returns when a file exists: the "deliveries" or
\* "routes" list of the latest file, flattened
load_latest_file(files) == json_normalize(LatestFile(files).data)

(***************************************************************************)
(* clean_delivery_data                                                      *)
(***************************************************************************)
\* lines 36-40: each timestamp column parsed, or all NaT when it is absent
parse_timestamps(df) ==
    DataFrame(df.columns \cup TimeCols,
              [i \in 1..Len(df.rows) |->
                 [c \in df.columns \cup TimeCols |->
                    IF c \in TimeCols
                    THEN (IF c \in df.columns THEN to_datetime(df.rows[i][c]) ELSE NaT)
                    ELSE df.rows[i][c]]])

\* the difference taken the other way round: expected - actual
delay_of_reversed(row) ==
    minutes_between(row.expected_delivery_time, row.actual_delivery_time)

\* line 43: delay_minutes = (actual - expected) in minutes
delay_of(row) == minutes_between(row.actual_delivery_time, row.expected_delivery_time)

add_delay_minutes(df) ==
    DataFrame(df.columns \cup {"delay_minutes"},
              [i \in 1..Len(df.rows) |->
                 df.rows[i] @@ [delay_minutes |-> delay_of(df.rows[i])]])

\* a filter that also wants the dispatch time
all_times_notnull(row) == ~IsNaN(row.delay_minutes) /\ ~row.dispatch_time.nat

\* line 46: notnull()
delay_notnull(row) == ~IsNaN(row.delay_minutes)

\* line 49: df.get("package_weight", 0)
weight_of(df, row) ==
    IF "package_weight" \in df.columns THEN row.package_weight ELSE Fin(0, 1)

add_package_weight_kg(df) ==
    DataFrame(df.columns \cup {"package_weight_kg"},
              [i \in 1..Len(df.rows) |->
                 df.rows[i] @@ [package_weight_kg |-> weight_of(df, df.rows[i])]])

\* line 46: df[mask].copy(), the rows with a delay, in order
drop_null_delays(df) == DataFrame(df.columns, SelectSeq(df.rows, delay_notnull))

clean_delivery_data(df) ==
    add_package_weight_kg(drop_null_delays(add_delay_minutes(parse_timestamps(df))))

(***************************************************************************)
(* pd.cut                                                                   *)
(***************************************************************************)
\* pd.cut(x, bins, right=False): the bins closed on the left
cut_left_closed(x, bins) ==
    LET InBin(i) == FLe(bins[i], x) /\ FLt(x, bins[i + 1])
    IN IF \E i \in 1..(Len(bins) - 1) : InBin(i)
       THEN CHOOSE i \in 1..(Len(bins) - 1) : InBin(i)
       ELSE 0

\* pd.cut(x, bins) with right-closed bins: the number i of the bin
\* (bins[i], bins[i+1]] that holds x, or 0 (a null category) when no bin does
cut(x, bins) ==
    LET InBin(i) == FLt(bins[i], x) /\ FLe(x, bins[i + 1])
    IN IF \E i \in 1..(Len(bins) - 1) : InBin(i)
       THEN CHOOSE i \in 1..(Len(bins) - 1) : InBin(i)
       ELSE 0

\* the label of bin i, null for the null category
label_of(i, labels) == IF i = 0 THEN NoneStr ELSE labels[i]

(***************************************************************************)
(* classify_delay, compute_agent_score                                      *)
(***************************************************************************)
delay_bins == <<NInf, Fin(0, 1), Fin(60, 1), Fin(180, 1), PInf>>

delay_labels == <<"On-Time", "Slight Delay", "Major Delay", "Critical Delay">>

delay_class_of(d) == label_of(cut(d, delay_bins), delay_labels)

classify_delay(df) ==
    DataFrame(df.columns \cup {"delay_class"},
              [i \in 1..Len(df.rows) |->
                 df.rows[i] @@ [delay_class |-> delay_class_of(df.rows[i].delay_minutes)]])

score_bins == <<NInf, Fin(0, 1), Fin(30, 1), Fin(60, 1), Fin(180, 1), PInf>>

score_labels == <<5, 4, 3, 2, 1>>

\* the integer label of the bin; 0 stands for the null category, which
\* astype(int) cannot convert
agent_score_of(d) ==
    LET i == cut(d, score_bins) IN IF i = 0 THEN 0 ELSE score_labels[i]

\* a conversion that also raises on a frame without rows
score_raises_on_empty(df) ==
    \/ df.rows = <<>>
    \/ \E i \in 1..Len(df.rows) : cut(df.rows[i].delay_minutes, score_bins) = 0

\* astype(int) raises ValueError on a null category
score_raises(df) ==
    \E i \in 1..Len(df.rows) : cut(df.rows[i].delay_minutes, score_bins) = 0

compute_agent_score(df) ==
    DataFrame(df.columns \cup {"agent_score"},
              [i \in 1..Len(df.rows) |->
                 df.rows[i] @@ [agent_score |-> agent_score_of(df.rows[i].delay_minutes)]])

(***************************************************************************)
(* merge_with_traffic                                                       *)
(***************************************************************************)
RECURSIVE Flatten(_)
Flatten(ss) == IF ss = <<>> THEN <<>> ELSE Head(ss) \o Flatten(Tail(ss))

\* traffic_df.add_suffix(sfx): every column renamed to <column><sfx>
add_suffix(df, sfx) ==
    LET renamed == {c \o sfx : c \in df.columns}
        old(cs) == CHOOSE c \in df.columns : c \o sfx = cs
    IN DataFrame(renamed,
                 [i \in 1..Len(df.rows) |-> [cs \in renamed |-> df.rows[i][old(cs)]]])

\* the row of nulls a left merge gives a left row without a match
null_row(df, sfx) ==
    LET renamed == {c \o sfx : c \in df.columns}
        old(cs) == CHOOSE c \in df.columns : c \o sfx = cs
    IN [cs \in renamed |-> NullOf(old(cs))]

\* how="inner": a left row without a match gives no row
merged_rows_inner(l, left_on, right, right_on, nulls) ==
    LET matches == SelectSeq(right.rows, LAMBDA r : r[right_on] = l[left_on])
    IN [j \in 1..Len(matches) |-> l @@ matches[j]]

\* lower-cased city names, for the names of the model
Lower(city) == IF city = "Delhi" THEN "delhi" ELSE city

\* keys compared without regard to case
merged_rows_nocase(l, left_on, right, right_on, nulls) ==
    LET matches ==
            SelectSeq(right.rows, LAMBDA r : Lower(r[right_on]) = Lower(l[left_on]))
    IN IF matches = <<>>
       THEN <<l @@ nulls>>
       ELSE [j \in 1..Len(matches) |-> l @@ matches[j]]

\* the rows a left row gives in left.merge(right, how="left"): one per right
\* row with an equal key, in the order of right, or one filled with nulls
merged_rows_of(l, left_on, right, right_on, nulls) ==
    LET matches == SelectSeq(right.rows, LAMBDA r : r[right_on] = l[left_on])
    IN IF matches = <<>>
       THEN <<l @@ nulls>>
       ELSE [j \in 1..Len(matches) |-> l @@ matches[j]]

\* left.merge(add_suffix(traffic, sfx), left_on, right_on = "city"+sfx, how="left")
left_merge(left, traffic, left_on, sfx) ==
    LET right == add_suffix(traffic, sfx)
    IN DataFrame(left.columns \cup right.columns,
                 Flatten([i \in 1..Len(left.rows) |->
                            merged_rows_of(left.rows[i], left_on, right,
                                           "city" \o sfx, null_row(traffic, sfx))]))

\* merge raises KeyError when a key column is absent
merge_raises(delivery, traffic) ==
    \/ "source_city" \notin delivery.columns
    \/ "destination_city" \notin delivery.columns
    \/ "city" \notin traffic.columns

merge_with_traffic(delivery, traffic) ==
    left_merge(left_merge(delivery, traffic, "source_city", "_source"),
               traffic, "destination_city", "_dest")

(***************************************************************************)
(* feature_engineering                                                      *)
(***************************************************************************)
\* Series.fillna(0)
fillna0(x) == IF IsNaN(x) THEN Fin(0, 1) ELSE x

\* max(v, 1): every speed below 1 becomes 1
replace_below_1(v) == IF IsFin(v) /\ v.n < v.d THEN Fin(1, 1) ELSE v

\* Series.replace(0, 1): only a value equal to 0 is replaced
replace_0_1(v) == IF IsFin(v) /\ v.n = 0 THEN Fin(1, 1) ELSE v

\* lines 101-104
traffic_impact_score_of(row) ==
    FMul(FAdd(FDiv(fillna0(row.traffic_congestion_score_source),
                   replace_0_1(row.avg_speed_source)),
              FDiv(fillna0(row.traffic_congestion_score_dest),
                   replace_0_1(row.avg_speed_dest))),
         Fin(10, 1))

risk_bins == <<NInf, Fin(7, 1), Fin(15, 1), PInf>>

risk_labels == <<"Low Risk", "Moderate Risk", "High Risk">>

traffic_risk_level_of(score) == label_of(cut(score, risk_bins), risk_labels)

\* the weight divided by the size of delay_minutes + 1
delivery_efficiency_index_abs(row) ==
    LET den == FAdd(row.delay_minutes, Fin(1, 1))
    IN FMul(FDiv(row.package_weight_kg, Fin(Abs(den.n), den.d)),
            Fin(row.agent_score, 1))

\* line 113
delivery_efficiency_index_of(row) ==
    FMul(FDiv(row.package_weight_kg, FAdd(row.delay_minutes, Fin(1, 1))),
         Fin(row.agent_score, 1))

predicted_bins == <<NInf, Fin(5, 1), Fin(15, 1), PInf>>

predicted_labels == <<"High Risk", "Moderate Risk", "Low Risk">>

predicted_delay_risk_level_of(index) ==
    label_of(cut(index, predicted_bins), predicted_labels)

FeatureCols ==
    {"traffic_impact_score", "traffic_risk_level",
     "delivery_efficiency_index", "predicted_delay_risk_level"}

\* a column the stage reads is absent: KeyError
feature_raises(df) ==
    ~({"traffic_congestion_score_source", "avg_speed_source",
       "traffic_congestion_score_dest", "avg_speed_dest",
       "package_weight_kg", "delay_minutes", "agent_score"} \subseteq df.columns)

engineer_row(row) ==
    LET score == traffic_impact_score_of(row)
        index == delivery_efficiency_index_of(row)
    IN row @@ [traffic_impact_score |-> score,
               traffic_risk_level |-> traffic_risk_level_of(score),
               delivery_efficiency_index |-> index,
               predicted_delay_risk_level |-> predicted_delay_risk_level_of(index)]

feature_engineering(df) ==
    DataFrame(df.columns \cup FeatureCols,
              [i \in 1..Len(df.rows) |-> engineer_row(df.rows[i])])

(***************************************************************************)
(* Raw inputs.                                                              *)
(***************************************************************************)
Delivery(id, src, dst, disp, exp, act, w) ==
    [shipment_id |-> id, source_city |-> src, destination_city |-> dst,
     dispatch_time |-> disp, expected_delivery_time |-> exp,
     actual_delivery_time |-> act, package_weight |-> w]

\* a delivery object without the optional keys
BareDelivery(id, src, dst, exp, act) ==
    [shipment_id |-> id, source_city |-> src, destination_city |-> dst,
     expected_delivery_time |-> exp, actual_delivery_time |-> act]

Route(city, congestion, speed, warning) ==
    [city |-> city, traffic_congestion_score |-> congestion,
     avg_speed |-> speed, weather_warning |-> warning]

\* extract.py, fallback_delivery_data (the times written with seconds)
SH001 ==
    Delivery("SH001", "Hyderabad", "Mumbai", TS(10, 8, 0, 0), TS(12, 20, 0, 0),
             NullTS, Fin(142, 10))

SH002 ==
    Delivery("SH002", "Delhi", "Bangalore", TS(9, 10, 30, 0), TS(11, 18, 0, 0),
             TS(11, 19, 10, 0), Fin(78, 10))

fallback_delivery_data == <<SH001, SH002>>

\* extract.py, fallback_traffic_data
RouteHyderabad == Route("Hyderabad", Fin(7, 1), Fin(235, 10), "Heavy rain")

RouteBangalore == Route("Bangalore", Fin(6, 1), Fin(28, 1), NoneStr)

fallback_traffic_data == <<RouteHyderabad, RouteBangalore>>

\* the delivery objects the files of the combinatorial family are made of
CoreDeliveries ==
    {SH001, SH002,
     \* on time, and a dispatch time that is no time
     Delivery("SH003", "Hyderabad", "Bangalore", TS(9, 25, 0, 0), TS(11, 18, 0, 0),
              TS(11, 18, 0, 0), Fin(1, 1)),
     \* one minute early, no dispatch time and no weight
     BareDelivery("SH004", "Bangalore", "delhi", TS(11, 18, 0, 0), TS(11, 17, 59, 0)),
     \* an expected time that is no time
     Delivery("SH005", "Delhi", "Hyderabad", TS(9, 10, 30, 0), TS(11, 18, 61, 0),
              TS(11, 19, 0, 0), Fin(3, 1)),
     \* seventy minutes early
     Delivery("SH006", "Delhi", "Delhi", TS(9, 10, 30, 0), TS(11, 18, 0, 0),
              TS(11, 16, 50, 0), Fin(78, 10))}

\* the route objects the files of the combinatorial family are made of
CoreRoutes ==
    {RouteHyderabad, RouteBangalore,
     \* a speed of zero
     Route("Delhi", Fin(3, 1), Fin(0, 1), NoneStr),
     \* a second record of the same city, with a speed between 0 and 1
     Route("Delhi", Fin(2, 1), Fin(1, 2), "Fog"),
     \* a congestion of null
     Route("Bangalore", NaN, Fin(4, 1), NoneStr)}

\* the sequences over S of length at most n
SeqsUpTo(S, n) == UNION {[1..m -> S] : m \in 0..n}

\* a traffic file with one record per city, for the one-delivery files
ReferenceTraffic ==
    <<RouteHyderabad, RouteBangalore,
      Route("Delhi", Fin(3, 1), Fin(0, 1), NoneStr),
      Route("Pune", Fin(7, 1), Fin(20, 1), NoneStr),
      Route("Kochi", Fin(71, 10), Fin(20, 1), NoneStr),
      Route("Agra", Fin(3, 1), Fin(4, 1), NoneStr),
      Route("Surat", Fin(31, 10), Fin(4, 1), NoneStr)>>

WideCityPairs ==
    {<<"Hyderabad", "Bangalore">>, <<"Delhi", "Bangalore">>, <<"Delhi", "Delhi">>,
     <<"Pune", "Pune">>, <<"Kochi", "Kochi">>, <<"Pune", "Agra">>,
     <<"Agra", "Agra">>, <<"Surat", "Surat">>}

\* actual delivery times around an expected time of 2025-01-11 18:00:00
WideActualTimes ==
    {NullTS, TS(11, 24, 0, 0),
     TS(11, 16, 50, 0), TS(11, 17, 59, 0), TS(11, 17, 59, 30), TS(11, 18, 0, 0),
     TS(11, 18, 0, 30), TS(11, 18, 30, 0), TS(11, 18, 30, 1), TS(11, 19, 0, 0),
     TS(11, 19, 0, 1), TS(11, 19, 10, 0), TS(11, 21, 0, 0), TS(11, 21, 0, 1),
     TS(12, 18, 0, 0)}

\* package weights, in tenths of a kilogram
WideWeights == {-10, 0, 10, 11, 30, 31, 78}

WideDeliveries ==
    {Delivery("SH100", p[1], p[2], TS(9, 10, 30, 0), TS(11, 18, 0, 0), act, Fin(w, 10)) :
        p \in WideCityPairs, act \in WideActualTimes, w \in WideWeights}

\* the states of the raw directory a run can start from
RawDirs ==
    \* no file or one file per source, any objects in it
    {[live_delivery |-> d, route_traffic |-> t] :
        d \in {{}} \cup {{File(1, x)} : x \in SeqsUpTo(CoreDeliveries, MaxRows)},
        t \in {{}} \cup {{File(1, x)} : x \in SeqsUpTo(CoreRoutes, MaxTraffic)}}
    \cup
    \* one delivery, one traffic record per city
    {[live_delivery |-> {File(1, <<x>>)}, route_traffic |-> {File(1, ReferenceTraffic)}] :
        x \in WideDeliveries}
    \cup
    \* an older and a newer file per source
    {[live_delivery |-> {File(1, d1), File(2, d2)},
      route_traffic |-> {File(1, t1), File(2, t2)}] :
        d1 \in {<<>>, <<SH002>>}, d2 \in {fallback_delivery_data, <<SH001>>},
        t1 \in {<<>>, fallback_traffic_data},
        t2 \in {fallback_traffic_data, <<[city |-> "Delhi"]>>}}

\* the greatest retries argument of the checked runs
MaxRetries == 3

\* line 86: the default of the retries parameter, the one both callers use
DefaultRetries == 3

\* lines 30-31: the two endpoints
DELIVERY_API == "https://api.swiftshipexpress.in/v1/deliveries/live"

TRAFFIC_API == "https://api.swiftshipexpress.in/v1/traffic/routes"

\* a JSON document with a "deliveries" or "routes" list, as response.json()
\* and the fallback functions return it
Json(items) == [kind |-> "dict", items |-> items]

\* the None a function returns when it falls off its end
JsonNone == [kind |-> "None", items |-> <<>>]

(***************************************************************************)
(* transform_pipeline                                                       *)
(***************************************************************************)
Init ==
    /\ RAW_DIR \in RawDirs
    /\ STAGED_DIR = {}
    /\ delivery_df = NoFrame
    /\ traffic_df = NoFrame
    /\ merged_df = NoFrame
    /\ pc = "start"
    /\ error = "none"
    \* the extraction is over: transform.py is a run of its own
    /\ xpc = "idle"
    /\ url = DELIVERY_API
    /\ retries = DefaultRetries
    /\ attempt = 1
    /\ data = JsonNone
    /\ log = <<>>

\* an exception leaves transform_pipeline: the run ends, nothing else changes
Raise(e) ==
    /\ pc' = "aborted"
    /\ error' = e

\* line 130
LoadDelivery ==
    /\ pc = "start"
    /\ IF RAW_DIR.live_delivery = {}
       THEN Raise("FileNotFoundError") /\ UNCHANGED delivery_df
       ELSE /\ delivery_df' = load_latest_file(RAW_DIR.live_delivery)
            /\ pc' = "delivery_loaded"
            /\ UNCHANGED error
    /\ UNCHANGED <<RAW_DIR, STAGED_DIR, traffic_df, merged_df>>
    /\ UNCHANGED xvars

\* a load that gives an empty frame when there is no file
LoadTraffic_NoRaise ==
    /\ pc = "delivery_loaded"
    /\ traffic_df' = IF RAW_DIR.route_traffic = {}
                     THEN NoFrame
                     ELSE load_latest_file(RAW_DIR.route_traffic)
    /\ pc' = "traffic_loaded"
    /\ UNCHANGED <<RAW_DIR, STAGED_DIR, delivery_df, merged_df, error>>
    /\ UNCHANGED xvars

\* line 131
LoadTraffic ==
    /\ pc = "delivery_loaded"
    /\ IF RAW_DIR.route_traffic = {}
       THEN Raise("FileNotFoundError") /\ UNCHANGED traffic_df
       ELSE /\ traffic_df' = load_latest_file(RAW_DIR.route_traffic)
            /\ pc' = "traffic_loaded"
            /\ UNCHANGED error
    /\ UNCHANGED <<RAW_DIR, STAGED_DIR, delivery_df, merged_df>>
    /\ UNCHANGED xvars

\* line 134
Clean ==
    /\ pc = "traffic_loaded"
    /\ delivery_df' = clean_delivery_data(delivery_df)
    /\ pc' = "cleaned"
    /\ UNCHANGED <<RAW_DIR, STAGED_DIR, traffic_df, merged_df, error>>
    /\ UNCHANGED xvars

\* line 135
Classify ==
    /\ pc = "cleaned"
    /\ delivery_df' = classify_delay(delivery_df)
    /\ pc' = "classified"
    /\ UNCHANGED <<RAW_DIR, STAGED_DIR, traffic_df, merged_df, error>>
    /\ UNCHANGED xvars

\* line 136
Score ==
    /\ pc = "classified"
    /\ IF score_raises(delivery_df)
       THEN Raise("ValueError") /\ UNCHANGED delivery_df
       ELSE /\ delivery_df' = compute_agent_score(delivery_df)
            /\ pc' = "scored"
            /\ UNCHANGED error
    /\ UNCHANGED <<RAW_DIR, STAGED_DIR, traffic_df, merged_df>>
    /\ UNCHANGED xvars

\* line 137
Merge ==
    /\ pc = "scored"
    /\ IF merge_raises(delivery_df, traffic_df)
       THEN Raise("KeyError") /\ UNCHANGED merged_df
       ELSE /\ merged_df' = merge_with_traffic(delivery_df, traffic_df)
            /\ pc' = "merged"
            /\ UNCHANGED error
    /\ UNCHANGED <<RAW_DIR, STAGED_DIR, delivery_df, traffic_df>>
    /\ UNCHANGED xvars

\* line 138 (final_df is merged_df, extended in place)
Engineer ==
    /\ pc = "merged"
    /\ IF feature_raises(merged_df)
       THEN Raise("KeyError") /\ UNCHANGED merged_df
       ELSE /\ merged_df' = feature_engineering(merged_df)
            /\ pc' = "engineered"
            /\ UNCHANGED error
    /\ UNCHANGED <<RAW_DIR, STAGED_DIR, delivery_df, traffic_df>>
    /\ UNCHANGED xvars

\* the file to_csv writes: the header line and one line per row
OutputFile(df) == [name |-> "transformed_delivery", header |-> df.columns, lines |-> df.rows]

\* lines 141-144
Save ==
    /\ pc = "engineered"
    /\ STAGED_DIR' = STAGED_DIR \cup {OutputFile(merged_df)}
    /\ pc' = "done"
    /\ UNCHANGED <<RAW_DIR, delivery_df, traffic_df, merged_df, error>>
    /\ UNCHANGED xvars

Next ==
    \/ LoadDelivery
    \/ LoadTraffic
    \/ Clean
    \/ Classify
    \/ Score
    \/ Merge
    \/ Engineer
    \/ Save

Spec == Init /\ [][Next]_vars

(***************************************************************************)
(* extract.py: make_request and the two extract functions                   *)
(***************************************************************************)
\* the documents the API can answer with, per endpoint
ApiBodies(u) ==
    IF u = DELIVERY_API
    THEN {Json(<<SH002>>), Json(<<SH002, SH001>>)}
    ELSE {Json(<<RouteHyderabad>>), Json(<<>>)}

\* the exceptions of one attempt: requests.get (line 90), raise_for_status
\* (line 91) and response.json (line 93)
RequestExceptions == {"ConnectionError", "Timeout", "HTTPError", "JSONDecodeError"}

\* line 94, except Exception: every one of them is caught
caught(e) == e \in RequestExceptions

\* lines 103 and 105, word in url, over the two endpoints
in_url(word, u) ==
    <<word, u>> \in {<<"deliveries", DELIVERY_API>>, <<"traffic", TRAFFIC_API>>}

\* lines 103-106: the fallback document of a URL, None when no word matches
fallback_of(u) ==
    IF in_url("deliveries", u) THEN Json(fallback_delivery_data)
    ELSE IF in_url("traffic", u) THEN Json(fallback_traffic_data)
    ELSE JsonNone

in_range_inclusive(a, n) == a <= n + 1

\* line 87, for attempt in range(1, retries + 1): the loop has another turn
in_range(a, n) == a <= n

\* one line of extract.log: its level word and the URL of the call it is of
LogLine(level, u) == [level |-> level, url |-> u]

\* the name of a file written now: later than every file of the folder
NewName(files) == IF files = {} THEN 1 ELSE LatestFile(files).name + 1

\* the raw folders an extraction can start from: empty, or holding the files
\* of an earlier run
OldRawDirs ==
    {[live_delivery |-> {}, route_traffic |-> {}],
     [live_delivery |-> {File(1, <<SH001>>)},
      route_traffic |-> {File(1, <<RouteBangalore>>)}]}

\* extract_all has just called extract_live_delivery_data, which has just
\* called make_request(DELIVERY_API)
ExtractInit ==
    /\ RAW_DIR \in OldRawDirs
    /\ STAGED_DIR = {}
    /\ delivery_df = NoFrame
    /\ traffic_df = NoFrame
    /\ merged_df = NoFrame
    /\ pc = "start"
    /\ error = "none"
    /\ xpc = "request"
    /\ url = DELIVERY_API
    /\ retries \in 0..MaxRetries
    /\ attempt = 1
    /\ data = JsonNone
    /\ log = <<>>

\* lines 88-93: an attempt succeeds, and make_request returns its JSON
RequestSucceeds ==
    /\ xpc = "request"
    /\ in_range(attempt, retries)
    /\ \E body \in ApiBodies(url) : data' = body
    /\ log' = Append(log, LogLine("SUCCESS", url))
    /\ xpc' = "write"
    /\ UNCHANGED <<RAW_DIR, url, retries, attempt>>
    /\ UNCHANGED tvars

\* lines 88-97: an attempt fails; the exception is caught, logged, and after
\* time.sleep(wait) the loop goes to its next turn
RequestFails ==
    /\ xpc = "request"
    /\ in_range(attempt, retries)
    /\ \E e \in RequestExceptions :
          IF caught(e)
          THEN /\ log' = Append(log, LogLine("ERROR", url))
               /\ attempt' = attempt + 1
               /\ xpc' = "request"
          ELSE /\ xpc' = "raised"
               /\ UNCHANGED <<log, attempt>>
    /\ UNCHANGED <<RAW_DIR, url, retries, data>>
    /\ UNCHANGED tvars

\* lines 99-106: the loop is over without a return; the fallback is returned
Fallback ==
    /\ xpc = "request"
    /\ ~in_range(attempt, retries)
    /\ log' = Append(log, LogLine("FALLBACK", url))
    /\ data' = fallback_of(url)
    /\ xpc' = "write"
    /\ UNCHANGED <<RAW_DIR, url, retries, attempt>>
    /\ UNCHANGED tvars

\* lines 115-120 and 126-131: the returned document is written to a new raw
\* file; after the delivery file, extract_all calls extract_route_traffic_data
\* (lines 140-141), after the traffic file it returns (line 144)
WriteRaw ==
    /\ xpc = "write"
    /\ log' = Append(log, LogLine("RAW saved", url))
    /\ IF url = DELIVERY_API
       THEN /\ RAW_DIR' = [RAW_DIR EXCEPT !.live_delivery =
                              @ \cup {File(NewName(@), data.items)}]
            /\ url' = TRAFFIC_API
            /\ attempt' = 1
            /\ data' = JsonNone
            /\ xpc' = "request"
       ELSE /\ RAW_DIR' = [RAW_DIR EXCEPT !.route_traffic =
                              @ \cup {File(NewName(@), data.items)}]
            /\ xpc' = "done"
            /\ UNCHANGED <<url, attempt, data>>
    /\ UNCHANGED retries
    /\ UNCHANGED tvars

ExtractNext ==
    \/ RequestSucceeds
    \/ RequestFails
    \/ Fallback
    \/ WriteRaw

\* extract.py is one thread of straight-line code: requests.get has a timeout
\* of 10 seconds and time.sleep(wait) ends, so a step that can be taken is taken
ExtractSpec == ExtractInit /\ [][ExtractNext]_vars /\ WF_vars(ExtractNext)

(***************************************************************************)
(* Properties.                                                              *)
(***************************************************************************)
\* the delivery frame as load_latest_file returned it
LoadedDelivery == load_latest_file(RAW_DIR.live_delivery)

\* the value of a loaded row's column parses to a timestamp
Parses(df, row, col) == col \in df.columns /\ ~to_datetime(row[col]).nat

BothTimesParse(row) ==
    /\ Parses(LoadedDelivery, row, "actual_delivery_time")
    /\ Parses(LoadedDelivery, row, "expected_delivery_time")

\* C1: the rows clean_delivery_data returns are exactly the loaded rows whose
\* actual and expected delivery times both parse, in the loaded order (a
\* dispatch time that does not parse drops nothing), and each of them has
\* delay_minutes = (actual - expected) seconds / 60, a defined number.
C1_CleanKeepsExactlyParsedRows ==
    pc = "cleaned" =>
        LET kept == SelectSeq(LoadedDelivery.rows, BothTimesParse)
        IN /\ Len(delivery_df.rows) = Len(kept)
           /\ \A i \in 1..Len(kept) :
                LET out == delivery_df.rows[i]
                    a == to_datetime(kept[i].actual_delivery_time).sec
                    e == to_datetime(kept[i].expected_delivery_time).sec
                IN /\ out.shipment_id = kept[i].shipment_id
                   /\ out.delay_minutes.k = "fin"
                   /\ out.delay_minutes.n * 60 = (a - e) * out.delay_minutes.d

\* a cleaned frame that lost a row without an actual time and kept a row
\* whose dispatch time is no time
C1_Witness ==
    /\ pc = "cleaned"
    /\ \E i \in 1..Len(LoadedDelivery.rows) :
          to_datetime(LoadedDelivery.rows[i].actual_delivery_time).nat
    /\ \E i \in 1..Len(delivery_df.rows) : delivery_df.rows[i].dispatch_time.nat
    /\ Len(delivery_df.rows) < Len(LoadedDelivery.rows)

\* the class and the score the tables of the claim give a delay of n/d minutes
TableClass(n, d) ==
    IF n <= 0 THEN "On-Time"
    ELSE IF n <= 60 * d THEN "Slight Delay"
    ELSE IF n <= 180 * d THEN "Major Delay"
    ELSE "Critical Delay"

TableScore(n, d) ==
    IF n <= 0 THEN 5
    ELSE IF n <= 30 * d THEN 4
    ELSE IF n <= 60 * d THEN 3
    ELSE IF n <= 180 * d THEN 2
    ELSE 1

\* C2: after classify_delay and compute_agent_score every row has the class
\* and the score of the tables (a boundary 0, 30, 60, 180 in the lower band),
\* a longer delay never has a higher score, and no row was removed.
C2_ClassAndScoreFollowTables ==
    pc = "scored" =>
        /\ Len(delivery_df.rows) = Len(SelectSeq(LoadedDelivery.rows, BothTimesParse))
        /\ \A i \in 1..Len(delivery_df.rows) :
              LET r == delivery_df.rows[i]
              IN /\ r.delay_class = TableClass(r.delay_minutes.n, r.delay_minutes.d)
                 /\ r.agent_score = TableScore(r.delay_minutes.n, r.delay_minutes.d)
        /\ \A i, j \in 1..Len(delivery_df.rows) :
              LET a == delivery_df.rows[i]
                  b == delivery_df.rows[j]
              IN a.delay_minutes.n * b.delay_minutes.d
                    <= b.delay_minutes.n * a.delay_minutes.d
                 => a.agent_score >= b.agent_score

\* a scored row whose delay is exactly 60 minutes: Slight Delay, score 3
C2_Witness ==
    /\ pc = "scored"
    /\ \E i \in 1..Len(delivery_df.rows) :
          /\ delivery_df.rows[i].delay_minutes = Fin(60, 1)
          /\ delivery_df.rows[i].delay_class = "Slight Delay"
          /\ delivery_df.rows[i].agent_score = 3

\* how many rows of the traffic frame have this city
Matches(city) ==
    Cardinality({j \in 1..Len(traffic_df.rows) : traffic_df.rows[j].city = city})

AtLeastOne(n) == IF n = 0 THEN 1 ELSE n

\* the rows the two left merges give the first n delivery rows
RECURSIVE ExpectedMergedRows(_)
ExpectedMergedRows(n) ==
    IF n = 0 THEN 0
    ELSE ExpectedMergedRows(n - 1)
         + AtLeastOne(Matches(delivery_df.rows[n].source_city))
           * AtLeastOne(Matches(delivery_df.rows[n].destination_city))

\* no delivery row has a city that two traffic rows carry
NoCityMatchesTwice ==
    \A i \in 1..Len(delivery_df.rows) :
        /\ Matches(delivery_df.rows[i].source_city) <= 1
        /\ Matches(delivery_df.rows[i].destination_city) <= 1

SideIsNull(m, sfx) ==
    \A c \in traffic_df.columns : m[c \o sfx] = NullOf(c)

\* the traffic columns of one side of a merged row are those of a traffic row
\* of this city
SideIsRouteOf(m, sfx, city) ==
    \E j \in 1..Len(traffic_df.rows) :
        /\ traffic_df.rows[j].city = city
        /\ \A c \in traffic_df.columns : m[c \o sfx] = traffic_df.rows[j][c]

\* the delivery columns of a merged row
DeliveryPart(m) == [c \in delivery_df.columns |-> m[c]]

\* C4: every delivery row is among the merged rows with its delivery columns
\* as they were; a merged row whose source (destination) city equals no
\* traffic city, by equality of the strings, has all its _source (_dest)
\* columns null, and the columns of the other side are not affected: they are
\* those of a traffic row of that city, or null when that city has none too.
C4_UnmatchedCityKeepsRowWithNulls ==
    pc = "merged" =>
        /\ \A i \in 1..Len(delivery_df.rows) :
              \E k \in 1..Len(merged_df.rows) :
                  DeliveryPart(merged_df.rows[k]) = delivery_df.rows[i]
        /\ \A k \in 1..Len(merged_df.rows) :
              LET m == merged_df.rows[k]
              IN /\ \E i \in 1..Len(delivery_df.rows) :
                        DeliveryPart(m) = delivery_df.rows[i]
                 /\ IF Matches(m.source_city) = 0
                    THEN SideIsNull(m, "_source")
                    ELSE SideIsRouteOf(m, "_source", m.source_city)
                 /\ IF Matches(m.destination_city) = 0
                    THEN SideIsNull(m, "_dest")
                    ELSE SideIsRouteOf(m, "_dest", m.destination_city)

\* a merged row to "delhi" when the traffic frame knows "Delhi" and the
\* source city: the _dest columns are null, the _source columns are not
C4_Witness ==
    /\ pc = "merged"
    /\ \E k \in 1..Len(merged_df.rows) :
          /\ merged_df.rows[k].destination_city = "delhi"
          /\ Matches("Delhi") > 0
          /\ merged_df.rows[k].city_dest = NoneStr
          /\ IsNaN(merged_df.rows[k].avg_speed_dest)
          /\ merged_df.rows[k].city_source = merged_df.rows[k].source_city

\* max(v, 1) of a speed
MaxWith1(v) == IF FLt(v, Fin(1, 1)) THEN Fin(1, 1) ELSE v

\* a speed, 1 standing for a speed of exactly 0
OneForZero(v) == IF v = Fin(0, 1) THEN Fin(1, 1) ELSE v

\* a congestion, 0 standing for a null one
ZeroForNull(c) == IF IsNaN(c) THEN Fin(0, 1) ELSE c

\* 10 * (c_s / den_s + c_d / den_d), a null congestion counted as 0
ImpactFormula(m, den_s, den_d) ==
    FMul(Fin(10, 1),
         FAdd(FDiv(ZeroForNull(m.traffic_congestion_score_source), den_s),
              FDiv(ZeroForNull(m.traffic_congestion_score_dest), den_d)))

BothSpeedsPresent(m) == ~IsNaN(m.avg_speed_source) /\ ~IsNaN(m.avg_speed_dest)

\* C5 as stated: for every joined row (with both speeds present)
\* traffic_impact_score = 10 * (c_s / max(v_s, 1) + c_d / max(v_d, 1)).
C5_ImpactDividesByMaxOfSpeedAnd1 ==
    pc = "engineered" =>
        \A k \in 1..Len(merged_df.rows) :
            LET m == merged_df.rows[k]
            IN BothSpeedsPresent(m) =>
                  m.traffic_impact_score =
                     ImpactFormula(m, MaxWith1(m.avg_speed_source),
                                   MaxWith1(m.avg_speed_dest))

\* C5 as amended: the divisor of a side is its speed, and 1 only when the
\* speed is exactly 0 (a speed strictly between 0 and 1 divides as it is);
\* when a speed is null the score is null.
C5_ImpactDividesBySpeedOr1ForZero ==
    pc = "engineered" =>
        \A k \in 1..Len(merged_df.rows) :
            LET m == merged_df.rows[k]
            IN IF BothSpeedsPresent(m)
               THEN m.traffic_impact_score =
                       ImpactFormula(m, OneForZero(m.avg_speed_source),
                                     OneForZero(m.avg_speed_dest))
               ELSE IsNaN(m.traffic_impact_score)

\* a row from a city of speed 0 to a city of speed 1/2, congestions 3 and 2:
\* 10 * (3/1 + 2/(1/2)) = 70
C5_Witness ==
    /\ pc = "engineered"
    /\ \E k \in 1..Len(merged_df.rows) :
          /\ merged_df.rows[k].avg_speed_source = Fin(0, 1)
          /\ merged_df.rows[k].traffic_congestion_score_source = Fin(3, 1)
          /\ merged_df.rows[k].avg_speed_dest = Fin(1, 2)
          /\ merged_df.rows[k].traffic_congestion_score_dest = Fin(2, 1)
          /\ merged_df.rows[k].traffic_impact_score = Fin(70, 1)

\* C6: no row that reaches feature_engineering has delay_minutes = -1, so the
\* divisor delay_minutes + 1 of the efficiency index is never zero.
C6_DivisorNeverZero ==
    pc = "merged" =>
        \A k \in 1..Len(merged_df.rows) :
            /\ merged_df.rows[k].delay_minutes # Fin(-1, 1)
            /\ FAdd(merged_df.rows[k].delay_minutes, Fin(1, 1)) # Fin(0, 1)

\* C7: every output row has a defined traffic_impact_score (>= 0),
\* traffic_risk_level, delivery_efficiency_index and
\* predicted_delay_risk_level, and feature_engineering drops no row.
C7_AllFeaturesDefined ==
    pc = "done" =>
        \A f \in STAGED_DIR :
            /\ Len(f.lines) = Len(merge_with_traffic(delivery_df, traffic_df).rows)
            /\ \A k \in 1..Len(f.lines) :
                  /\ ~IsNaN(f.lines[k].traffic_impact_score)
                  /\ FLe(Fin(0, 1), f.lines[k].traffic_impact_score)
                  /\ f.lines[k].traffic_risk_level # NoneStr
                  /\ ~IsNaN(f.lines[k].delivery_efficiency_index)
                  /\ f.lines[k].predicted_delay_risk_level # NoneStr

IsNegative(x) == x.k = "ninf" \/ (x.k = "fin" /\ x.n < 0)

\* C8 as stated: with a weight >= 0 the efficiency index is never negative,
\* whatever the delay.
C8_IndexNegativeOnlyIfWeightNegative ==
    pc = "engineered" =>
        \A k \in 1..Len(merged_df.rows) :
            LET m == merged_df.rows[k]
            IN (IsFin(m.package_weight_kg) /\ m.package_weight_kg.n >= 0)
                  => ~IsNegative(m.delivery_efficiency_index)

\* C8 as amended: with a weight >= 0 the index is negative exactly when the
\* weight is positive and the delivery is more than one minute early
\* (delay_minutes < -1, a negative divisor).
C8_IndexNegativeIffEarlierThanOneMinute ==
    pc = "engineered" =>
        \A k \in 1..Len(merged_df.rows) :
            LET m == merged_df.rows[k]
                d == m.delay_minutes
            IN (IsFin(m.package_weight_kg) /\ m.package_weight_kg.n >= 0)
                  => (IsNegative(m.delivery_efficiency_index)
                        <=> (m.package_weight_kg.n > 0 /\ d.n < -d.d))

\* two rows of positive weight: seventy minutes early with a negative index,
\* half a minute early or later with a positive one
C8_Witness ==
    /\ pc = "engineered"
    /\ \E k \in 1..Len(merged_df.rows) :
          /\ merged_df.rows[k].package_weight_kg.n > 0
          /\ merged_df.rows[k].delay_minutes = Fin(-70, 1)
          /\ IsNegative(merged_df.rows[k].delivery_efficiency_index)
    /\ \E k \in 1..Len(merged_df.rows) :
          /\ merged_df.rows[k].package_weight_kg.n > 0
          /\ merged_df.rows[k].delay_minutes.n >= 0
          /\ FLt(Fin(0, 1), merged_df.rows[k].delivery_efficiency_index)

\* C9: traffic_risk_level is Low Risk for a score <= 7, Moderate Risk for
\* 7 < score <= 15, High Risk for a score > 15; predicted_delay_risk_level is
\* High Risk for an index <= 5, Moderate Risk for 5 < index <= 15, Low Risk
\* for an index > 15; a larger index never has a higher predicted risk.
C9_RiskBandsRightClosed ==
    pc = "engineered" =>
        \A k \in 1..Len(merged_df.rows) :
            LET m == merged_df.rows[k]
                s == m.traffic_impact_score
                x == m.delivery_efficiency_index
            IN /\ FLe(s, Fin(7, 1)) => m.traffic_risk_level = "Low Risk"
               /\ (FLt(Fin(7, 1), s) /\ FLe(s, Fin(15, 1)))
                     => m.traffic_risk_level = "Moderate Risk"
               /\ FLt(Fin(15, 1), s) => m.traffic_risk_level = "High Risk"
               /\ FLe(x, Fin(5, 1)) => m.predicted_delay_risk_level = "High Risk"
               /\ (FLt(Fin(5, 1), x) /\ FLe(x, Fin(15, 1)))
                     => m.predicted_delay_risk_level = "Moderate Risk"
               /\ FLt(Fin(15, 1), x) => m.predicted_delay_risk_level = "Low Risk"

\* C10: an output file exists only when the run is done, after both sources
\* were loaded and every stage ran; a run that aborted wrote no file; and when
\* the delivery or the traffic source has no raw file, no stage runs.
C10_OutputOnlyAfterEveryStage ==
    /\ STAGED_DIR # {} =>
          /\ pc = "done"
          /\ error = "none"
          /\ RAW_DIR.live_delivery # {}
          /\ RAW_DIR.route_traffic # {}
          /\ \A f \in STAGED_DIR :
                {"delay_minutes", "delay_class", "agent_score", "city_source",
                 "city_dest"} \cup FeatureCols \subseteq f.header
    /\ pc = "aborted" => (STAGED_DIR = {} /\ error # "none")
    /\ (RAW_DIR.live_delivery = {} \/ RAW_DIR.route_traffic = {}) =>
          /\ pc \in {"start", "delivery_loaded", "aborted"}
          /\ "delay_minutes" \notin delivery_df.columns
          /\ merged_df = NoFrame
          /\ STAGED_DIR = {}

\* a run that a stage aborted (the merge, after the delivery stages ran): no
\* output file
C10_Witness ==
    /\ pc = "aborted"
    /\ error = "KeyError"
    /\ "agent_score" \in delivery_df.columns
    /\ STAGED_DIR = {}

\* the raw delivery file has rows and none of them has a delay
AllDelaysUndefined ==
    /\ RAW_DIR.live_delivery # {}
    /\ LoadedDelivery.rows # <<>>
    /\ \A i \in 1..Len(LoadedDelivery.rows) : ~BothTimesParse(LoadedDelivery.rows[i])

\* the raw traffic file gives a frame with the columns the merge and
\* feature_engineering read
TrafficUsable ==
    /\ RAW_DIR.route_traffic # {}
    /\ {"city", "traffic_congestion_score", "avg_speed"}
          \subseteq load_latest_file(RAW_DIR.route_traffic).columns

\* C11: when every delivery row of the raw file has an undefined delay (and
\* the traffic file is usable), clean_delivery_data returns a frame without
\* rows, no stage raises, the run can always take its next step until it is
\* done, and the one file it has written then has the full header and no
\* data line.
C11_EmptyTableStillWritten ==
    (AllDelaysUndefined /\ TrafficUsable) =>
        /\ pc # "aborted"
        /\ error = "none"
        /\ pc # "done" => ENABLED Next
        /\ pc \in {"cleaned", "classified", "scored"} => delivery_df.rows = <<>>
        /\ pc \in {"merged", "engineered"} => merged_df.rows = <<>>
        /\ pc = "done" =>
              /\ Cardinality(STAGED_DIR) = 1
              /\ \A f \in STAGED_DIR :
                    /\ f.lines = <<>>
                    /\ {"delay_minutes", "delay_class", "agent_score"} \cup FeatureCols
                          \subseteq f.header

\* a finished run over a delivery file of two rows, neither with a delay:
\* the output file has no data line
C11_Witness ==
    /\ pc = "done"
    /\ AllDelaysUndefined
    /\ Len(LoadedDelivery.rows) = 2
    /\ \E f \in STAGED_DIR : f.lines = <<>>

\* the one traffic row of this city has this congestion and this speed
OnlyRouteOf(city, congestion, speed) ==
    /\ Matches(city) = 1
    /\ \A j \in 1..Len(traffic_df.rows) :
          traffic_df.rows[j].city = city =>
              /\ traffic_df.rows[j].traffic_congestion_score = congestion
              /\ traffic_df.rows[j].avg_speed = speed

\* the raw delivery file holds one delivery, expected "2025-01-11 18:00" and
\* delivered "2025-01-11 19:10", of 7.8 kg, from a city whose traffic row has
\* congestion 7 and speed 23.5 to a city whose traffic row has 6 and 28
ScenarioInput ==
    /\ RAW_DIR.live_delivery # {}
    /\ Len(LatestFile(RAW_DIR.live_delivery).data) = 1
    /\ LET d == LatestFile(RAW_DIR.live_delivery).data[1]
       IN /\ "package_weight" \in DOMAIN d
          /\ d.expected_delivery_time = TS(11, 18, 0, 0)
          /\ d.actual_delivery_time = TS(11, 19, 10, 0)
          /\ d.package_weight = Fin(78, 10)
          /\ OnlyRouteOf(d.source_city, Fin(7, 1), Fin(235, 10))
          /\ OnlyRouteOf(d.destination_city, Fin(6, 1), Fin(28, 1))

\* the output line of the scenario: delay 70, Major Delay, score 2,
\* impact = 10 * (7/23.5 + 6/28) (between 5.12 and 5.13), Low Risk,
\* index = 7.8/71 * 2 (between 0.2197 and 0.2198), High Risk
ScenarioLine(r) ==
    /\ r.delay_minutes = Fin(70, 1)
    /\ r.delay_class = "Major Delay"
    /\ r.agent_score = 2
    /\ r.traffic_impact_score.k = "fin"
    /\ r.traffic_impact_score.n * (235 * 28)
          = r.traffic_impact_score.d * 10 * (70 * 28 + 6 * 235)
    /\ 512 * r.traffic_impact_score.d <= 100 * r.traffic_impact_score.n
    /\ 100 * r.traffic_impact_score.n < 513 * r.traffic_impact_score.d
    /\ r.traffic_risk_level = "Low Risk"
    /\ r.delivery_efficiency_index.k = "fin"
    /\ r.delivery_efficiency_index.n * (10 * 71) = r.delivery_efficiency_index.d * 78 * 2
    /\ 2197 * r.delivery_efficiency_index.d <= 10000 * r.delivery_efficiency_index.n
    /\ 10000 * r.delivery_efficiency_index.n < 2198 * r.delivery_efficiency_index.d
    /\ r.predicted_delay_risk_level = "High Risk"

\* C12: a run over the scenario's input ends with one output file of exactly
\* one line, and the line has the values of the scenario.
C12_EndToEndScenario ==
    (pc = "done" /\ ScenarioInput) =>
        /\ Cardinality(STAGED_DIR) = 1
        /\ \A f \in STAGED_DIR : Len(f.lines) = 1 /\ ScenarioLine(f.lines[1])

\* a finished run over the scenario's input, from Hyderabad to Bangalore
C12_Witness ==
    /\ pc = "done"
    /\ ScenarioInput
    /\ \E f \in STAGED_DIR :
          /\ f.lines[1].source_city = "Hyderabad"
          /\ f.lines[1].city_dest = "Bangalore"
          /\ f.lines[1].traffic_impact_score = Fin(1685, 329)
          /\ f.lines[1].delivery_efficiency_index = Fin(78, 355)

\* the positions of the log lines of one level of the call for one URL
LinesOf(level, u) == {i \in DOMAIN log : log[i] = LogLine(level, u)}

\* the attempts the call for a URL has made: each logs SUCCESS or ERROR
Attempts(u) == LinesOf("SUCCESS", u) \cup LinesOf("ERROR", u)

\* the call for a URL has returned
Returned(u) == LinesOf("SUCCESS", u) \cup LinesOf("FALLBACK", u) # {}

\* what a returned call for a URL may have returned, given its log: the
\* fallback of that endpoint after a fallback, a document of the API otherwise
ReturnOf(u) ==
    IF LinesOf("FALLBACK", u) # {}
    THEN {Json(IF u = DELIVERY_API THEN fallback_delivery_data
                                   ELSE fallback_traffic_data)}
    ELSE ApiBodies(u)

\* no exception has left make_request; a call makes at most retries attempts,
\* none after a success; it falls back once, only after retries failures and
\* no success; it returns the first success's JSON or its endpoint's fallback;
\* and a raw file, the latest of its folder, holds what the call returned
C13_RetryInvariant ==
    /\ xpc # "raised"
    /\ \A u \in {DELIVERY_API, TRAFFIC_API} :
          /\ Cardinality(Attempts(u)) <= retries
          /\ Cardinality(LinesOf("SUCCESS", u)) <= 1
          /\ Cardinality(LinesOf("FALLBACK", u)) <= 1
          /\ \A i \in LinesOf("SUCCESS", u) :
                \A j \in Attempts(u) \cup LinesOf("FALLBACK", u) : j <= i
          /\ \A i \in LinesOf("FALLBACK", u) :
                /\ LinesOf("SUCCESS", u) = {}
                /\ Cardinality(LinesOf("ERROR", u)) = retries
                /\ \A j \in LinesOf("ERROR", u) : j < i
          /\ (xpc = "write" /\ url = u) => Returned(u) /\ data \in ReturnOf(u)
          /\ LinesOf("RAW saved", u) # {} =>
                /\ Returned(u)
                /\ Cardinality(LinesOf("RAW saved", u)) = 1
    /\ LinesOf("RAW saved", DELIVERY_API) # {} =>
          /\ RAW_DIR.live_delivery # {}
          /\ Json(LatestFile(RAW_DIR.live_delivery).data) \in ReturnOf(DELIVERY_API)
    /\ LinesOf("RAW saved", TRAFFIC_API) # {} =>
          /\ RAW_DIR.route_traffic # {}
          /\ Json(LatestFile(RAW_DIR.route_traffic).data) \in ReturnOf(TRAFFIC_API)

\* extract_all has returned, and each extract function has written its file
BothRawFilesWritten ==
    /\ xpc = "done"
    /\ LinesOf("RAW saved", DELIVERY_API) # {}
    /\ LinesOf("RAW saved", TRAFFIC_API) # {}

\* C13: make_request never raises on a failed request and makes at most
\* retries attempts one after another, returns the JSON of the first success
\* without a further attempt, falls back to the data of its endpoint only
\* after all retries attempts failed; and every run of the extraction ends
\* with both raw files written.
C13_RetryFallbackAlwaysWrites ==
    []C13_RetryInvariant /\ <>BothRawFilesWritten

\* a finished run whose delivery call fell back after three failures and whose
\* traffic call succeeded at its third attempt
C13_Witness ==
    /\ xpc = "done"
    /\ retries = 3
    /\ Cardinality(LinesOf("ERROR", DELIVERY_API)) = 3
    /\ LinesOf("FALLBACK", DELIVERY_API) # {}
    /\ LatestFile(RAW_DIR.live_delivery).data = fallback_delivery_data
    /\ Cardinality(LinesOf("ERROR", TRAFFIC_API)) = 2
    /\ LinesOf("SUCCESS", TRAFFIC_API) # {}
    /\ LatestFile(RAW_DIR.route_traffic).data = <<RouteHyderabad>>

====
